---- MODULE Spec2Model ----
(***************************************************************************)
(* web-archiver-action: the archive orchestration of main.js.              *)
(*                                                                         *)
(* The repository holds several revisions of main.js.  The model follows   *)
(* the revision of src/unnamed/part_001 lines 307-577 ("current": the      *)
(* description column, updatedMetadata as a copy of the loaded metadata)   *)
(* and the revision of src/main.js lines 430-617 ("const": archivedPath    *)
(* declared const, metadata written on success only, git commit and push)  *)
(* and the revision of src/main.js lines 1-300 ("inplace": the loaded      *)
(* metadata changed in place, writeOutputFiles called with five values).   *)
(* One run of the action is Start, then one ProcessArtifact per artifact,  *)
(* then WriteOutputFiles, then Finish, then Exit.  The clock (Tick) may     *)
(* pass midnight at any time.  Runs follow each other on the same working  *)
(* tree, so a run loads the archive/metadata.json the previous run saved.  *)
(*                                                                         *)
(* The shell scripts of the first design (handle_artifact.sh and the two   *)
(* handlers it delegates to) are a state machine of their own, SpecShell,  *)
(* over the working tree (disk) and the commands of the last call.         *)
(***************************************************************************)
EXTENDS Integers, Sequences, FiniteSets, TLC

\* Bounds of the model.
MaxArtifacts == 2
MaxDate == 2

\* ------------------------------------------------------------------ data

ARCHIVE_DIR == "archive"

\* The value of a property that is not there (JavaScript's undefined).
Undefined == "undefined"

\* JavaScript's null as an archiveWebsite result (falsy, like the empty string).
Null == <<>>

\* An identity is the artifact's url, held as its text split at "/":
\* "https://a.example" is <<"https:", "", "a.example">>, "r/one" is <<"r", "one">>.
SiteA == <<"https:", "", "a.example">>
SubOne == <<"r", "one">>
SubTwo == <<"r", "two">>
Urls == {SiteA, SubOne, SubTwo}

\* The artifacts a list may hold: the site with a description, the subreddits
\* with none ("" is a description that is missing or empty: both are falsy).
Artifact == {[url |-> SiteA, description |-> "home"],
             [url |-> SubOne, description |-> ""],
             [url |-> SubTwo, description |-> ""]}

ArtifactLists == UNION {[1..n -> Artifact] : n \in 0..MaxArtifacts}

\* The values of the github_token input; core.getInput gives "" for an input that
\* was not supplied.
Tokens == {"tokA", "tokB"}

NoToken == ""

\* The inputs of a run: the artifacts input (the text of a list, or text that
\* JSON.parse rejects) and the github_token input (runs without the token and runs
\* with the second token are tried on the shorter lists).
BadJson == [parses |-> FALSE, token |-> "tokA", list |-> <<>>]

Inputs ==
  {[parses |-> TRUE, token |-> "tokA", list |-> l] : l \in ArtifactLists}
    \cup {[parses |-> TRUE, token |-> t, list |-> l] :
             t \in {NoToken, "tokB"}, l \in {x \in ArtifactLists : Len(x) < MaxArtifacts}}
    \cup {BadJson}

\* What wget ends with for one artifact.
FetchResults == {"ok", "http404", "http503"}

\* toISOString().split("T")[0] of the clock's day.
DateStrings == <<"2025-01-01", "2025-01-02", "2025-01-03", "2025-01-04">>

IsoDate(day) == DateStrings[day]

\* Names that contain a "." (fileName.includes(".")).
DottedNames == {"a.example", "old.reddit.com", "index.html", "file.pdf"}

\* ------------------------------------------------- JavaScript objects
\* An object is the sequence of its <<key, value>> pairs in insertion order.

Keys(m) == {m[k][1] : k \in 1..Len(m)}

Has(m, key) == key \in Keys(m)

IndexOf(m, key) == CHOOSE k \in 1..Len(m) : m[k][1] = key

Get(m, key) == m[IndexOf(m, key)][2]

Put(m, key, v) ==
  IF Has(m, key) THEN [m EXCEPT ![IndexOf(m, key)] = <<key, v>>]
  ELSE Append(m, <<key, v>>)

EmptyObject == [t |-> "object", e |-> <<>>]

\* { ...metadata }: the own enumerable properties of the value, as a new object.
\* null and an empty array have none.
SpreadCopyDropsAll(v) == EmptyObject

SpreadCopy(v) == IF v.t = "object" THEN v ELSE EmptyObject

\* metadata[url] is truthy.
HasRecord(v, url) == v.t = "object" /\ Has(v.e, url)

\* Reading metadata[url] throws a TypeError.
LookupThrows(v) == v.t = "null"

\* --------------------------------------------------------- metadata.json

Fields == {"lastArchived", "archivedPath", "description"}

IsDefined(rec, f) == IF f = "archivedPath" THEN TRUE ELSE rec[f] # Undefined

\* JSON.stringify of one record: a property whose value is undefined is left out.
StringifyRecordNoDescription(rec) ==
  [f \in {g \in Fields \ {"description"} : IsDefined(rec, g)} |-> rec[f]]

StringifyRecord(rec) == [f \in {g \in Fields : IsDefined(rec, g)} |-> rec[f]]

\* JSON.stringify(metadata, null, 2).
JsonStringify(v) ==
  IF v.t = "object"
  THEN [t |-> "object",
        members |-> [k \in 1..Len(v.e) |-> <<v.e[k][1], StringifyRecord(v.e[k][2])>>]]
  ELSE [t |-> v.t]

\* Reading a property a parsed record does not have gives undefined.
ParseRecord(tr) == [f \in Fields |-> IF f \in DOMAIN tr THEN tr[f] ELSE Undefined]

\* JSON.parse of the file's text.
JsonParse(text) ==
  IF text.t = "object"
  THEN [t |-> "object",
        e |-> [k \in 1..Len(text.members) |->
                 <<text.members[k][1], ParseRecord(text.members[k][2])>>]]
  ELSE [t |-> text.t]

MissingFile == [kind |-> "missing"]

\* A file that cannot be read or whose text is not JSON.
GarbageFile == [kind |-> "garbage"]

JsonFile(text) == [kind |-> "json", text |-> text]

\* loadArchiveMetadata: the value and whether the warning was logged.
loadArchiveMetadata(file) ==
  IF file.kind = "missing" THEN [value |-> EmptyObject, warned |-> FALSE]
  ELSE IF file.kind = "garbage" THEN [value |-> EmptyObject, warned |-> TRUE]
  ELSE [value |-> JsonParse(file.text), warned |-> FALSE]

\* saveArchiveMetadata: the file it leaves.
saveArchiveMetadata(v) == JsonFile(JsonStringify(v))

\* ------------------------------------------------------------------ paths

\* The first place of "archive/" in a path: a segment "archive" that is not the last.
ArchiveAt(p) ==
  IF \E k \in 1..(Len(p) - 1) : p[k] = ARCHIVE_DIR
  THEN CHOOSE k \in 1..(Len(p) - 1) :
         p[k] = ARCHIVE_DIR /\ \A j \in 1..(k - 1) : p[j] # ARCHIVE_DIR
  ELSE 0

\* archivedPath.replace(/^.*?archive\//, "archive/").
NormalisePathDropsRoot(p) ==
  IF ArchiveAt(p) = 0 THEN p ELSE SubSeq(p, ArchiveAt(p) + 1, Len(p))

NormalisePath(p) ==
  IF ArchiveAt(p) = 0 THEN p
  ELSE <<ARCHIVE_DIR>> \o SubSeq(p, ArchiveAt(p) + 1, Len(p))

\* data.archivedPath.replace(ARCHIVE_DIR + '/', ''): the link of a report row.
ReportLink(p) ==
  IF ArchiveAt(p) = 0 THEN p
  ELSE SubSeq(p, 1, ArchiveAt(p) - 1) \o SubSeq(p, ArchiveAt(p) + 1, Len(p))

\* ------------------------------------------------------- archiveWebsite

\* url.startsWith("r/").
IsSubreddit(url) == Len(url) >= 2 /\ url[1] = "r"

\* The url handed to wget: a subreddit becomes its wiki on old.reddit.com.
TargetUrl(url) ==
  IF IsSubreddit(url) THEN <<"https:", "", "old.reddit.com">> \o url \o <<"wiki">>
  ELSE url

\* What archiveWebsite fetches and with which program: every revision of main.js
\* runs wget; only the current one rewrites a subreddit first.
Strategy(rev, url) ==
  [target |-> IF rev = "current" THEN TargetUrl(url) ELSE url, tool |-> "wget"]

\* new URL(url) does not throw.
IsValidUrl(u) == Len(u) >= 3 /\ u[1] \in {"http:", "https:"} /\ u[2] = "" /\ u[3] # ""

Hostname(u) == u[3]

\* path.basename(urlObj.pathname).
FileName(u) == IF Len(u) >= 4 THEN u[Len(u)] ELSE ""

\* The path archiveWebsite returns once wget has ended well (current revision).
ArchivedPathOf(u) ==
  IF FileName(u) # "" /\ FileName(u) \in DottedNames
  THEN <<ARCHIVE_DIR, Hostname(u)>> \o SubSeq(u, 4, Len(u))
  ELSE <<ARCHIVE_DIR, Hostname(u), "index.html">>

\* url.replace(/[^a-zA-Z0-9]/g, "_") (const revision), for the modelled urls.
UrlSlug(url) ==
  IF url = SiteA THEN "https___a_example"
  ELSE IF url = SubOne THEN "r_one"
  ELSE IF url = SubTwo THEN "r_two"
  ELSE "_"

\* archiveWebsite: the path, or Null when wget or new URL threw.
archiveWebsite(rev, url, res) ==
  IF res # "ok" THEN Null
  ELSE IF rev = "const" THEN <<ARCHIVE_DIR, UrlSlug(url), "index.html">>
  ELSE IF rev = "inplace"
  THEN IF IsValidUrl(url) THEN <<ARCHIVE_DIR, Hostname(url), "index.html">> ELSE Null
  ELSE IF IsValidUrl(Strategy(rev, url).target)
  THEN ArchivedPathOf(Strategy(rev, url).target)
  ELSE Null

\* artifact.description || "No description provided" ("" in the older revisions).
DescriptionOf(rev, artifact) ==
  IF artifact.description # "" THEN artifact.description
  ELSE IF rev = "current" THEN "No description provided" ELSE ""

\* ------------------------------------------------ batch pre-validation

ProbeResults == {"Reachable", "NotFound", "HardFailure"}

\* The prober's class of a numeric status: 2xx and 3xx, 404, anything else.
ProbeVectors(n) == [1..n -> ProbeResults]

\* The identities whose probe was a hard failure.
Offenders(arts, probes) ==
  {arts[k].url : k \in {j \in 1..Len(arts) : probes[j] = "HardFailure"}}

RECURSIVE KeepFrom(_, _, _)
KeepFrom(arts, probes, k) ==
  IF k > Len(arts) THEN <<>>
  ELSE IF probes[k] = "NotFound" THEN KeepFrom(arts, probes, k + 1)
  ELSE <<arts[k]>> \o KeepFrom(arts, probes, k + 1)

\* The artifacts left for the fetch phase: all but those probed NotFound.
FetchPhase(arts, probes) == KeepFrom(arts, probes, 1)

\* A hard failure among the probes aborts the run.
PreValidationAbortsNever(arts, probes) == FALSE

PreValidationAborts(arts, probes) == Offenders(arts, probes) # {}

\* ------------------------------------------------------------------ state

VARIABLES
  variant,          \* the revision of main.js that runs
  batchValidation,  \* whether the pre-validation pass is enabled
  today,            \* the clock's day
  metaFile,         \* archive/metadata.json
  readmeFile,       \* README.md: the rows of its table (none before a run writes it)
  indexFile,        \* index.html: the rows of its table (none before a run writes it)
  pc,               \* where the run is: idle, loop, finish, done
  artifacts,        \* the artifact list of the run's fetch phase
  i,                \* the loop's place in artifacts
  metadata,         \* the loaded metadata (archiveMetadata)
  updatedMetadata,  \* the copy processArtifacts builds
  snippets,         \* const revision: the report lines gathered in the loop
  failed,           \* the run's status is failed (setFailed, or an uncaught error)
  log,              \* the warnings and the closing messages of the run
  input,            \* history: the artifact list the run was given
  probes,           \* history: the pre-validation probe of each input artifact
  fileAtStart,      \* history: metadata.json when the run began
  loaded,           \* history: what loadArchiveMetadata returned
  results,          \* history: one record per artifact the loop has handled
  saved,            \* history: the run has written metadata.json
  lastGood,         \* history: per url, its latest successful capture
  lastSaved,        \* history: the value last handed to saveArchiveMetadata
  token,            \* the github_token input of the run ("" when idle)
  prev,             \* history: the run before this one, when all its fetches succeeded
  keepPrev,         \* history: whether prev is kept (only where two runs are compared)
  disk,             \* scripts: what lies at each target directory and output file
  shOut,            \* scripts: what the last handle_artifact.sh call printed
  shTrace,          \* scripts, history: the commands that call ran, in order
  goodCopy          \* scripts, history: per path, its latest successful capture

vars == <<variant, batchValidation, today, metaFile, readmeFile, indexFile, pc,
          artifacts, i, metadata, updatedMetadata, snippets, failed, log, input,
          probes, fileAtStart, loaded, results, saved, lastGood, lastSaved, token,
          prev, keepPrev, disk, shOut, shTrace, goodCopy>>

shellVars == <<disk, shOut, shTrace, goodCopy>>

NoCapture == [date |-> Undefined, path |-> Null]

\* No run before this one in which every fetch succeeded.
NoRun == [ok |-> FALSE, input |-> <<>>, store |-> EmptyObject]

\* The run has written its files and every artifact of its list was captured.
AllCaptured ==
  /\ saved
  /\ Len(results) = Len(input)
  /\ \A k \in 1..Len(results) : results[k].path # Null

OldPathA == <<ARCHIVE_DIR, "a.example", "index.html">>

\* A file the current revision wrote on an earlier day.
OldFile ==
  JsonFile([t |-> "object",
            members |-> << <<SiteA, [lastArchived |-> "2024-01-01",
                                     archivedPath |-> OldPathA,
                                     description |-> "old"]>> >>])

\* A file the const revision wrote: no description, the slug as the directory.
LegacyFile ==
  JsonFile([t |-> "object",
            members |-> << <<SiteA, [lastArchived |-> "2024-01-01",
                                     archivedPath |-> <<ARCHIVE_DIR, UrlSlug(SiteA),
                                                        "index.html">>]>> >>])

NullFile == JsonFile([t |-> "null"])

ArrayFile == JsonFile([t |-> "array"])

InitFiles == {MissingFile, GarbageFile, NullFile, ArrayFile, OldFile, LegacyFile}

\* The latest capture each initial file records.
InitLastGood(file) ==
  [u \in Urls |->
     IF file.kind = "json" /\ file.text.t = "object" /\ Has(file.text.members, u)
     THEN [date |-> Get(file.text.members, u).lastArchived,
           path |-> Get(file.text.members, u).archivedPath]
     ELSE NoCapture]

\* The paths the scripts write to, for the modelled artifacts.
TargetDir(artifact) == <<ARCHIVE_DIR, artifact[3]>>

\* "${SUBREDDIT}_wiki.html", for the modelled subreddits.
WikiFileName(name) ==
  IF name = "one" THEN "one_wiki.html"
  ELSE IF name = "two" THEN "two_wiki.html"
  ELSE "_wiki.html"

OutputFile(artifact) == <<ARCHIVE_DIR, WikiFileName(artifact[2])>>

\* wget -m without -P writes below the working directory, in a directory named
\* after the host.
MirrorDir(artifact) == <<artifact[3]>>

ShellPaths == {TargetDir(SiteA), MirrorDir(SiteA), OutputFile(SubOne), OutputFile(SubTwo)}

\* transfer is history: how the download command of the call ended.
NoOutput == [artifact |-> <<>>, status |-> "none", snippet |-> "none", transfer |-> "none"]

\* The working tree before a script runs: nothing yet, or the copy of the site
\* that an earlier run committed at archive/<host>.
NoDisk == [q \in ShellPaths |-> "none"]

EarlierDisks == {NoDisk, [NoDisk EXCEPT ![TargetDir(SiteA)] = "2024-12-31"]}

InitScripts ==
  /\ disk \in (IF variant = "scripts" THEN EarlierDisks ELSE {NoDisk})
  /\ shOut = NoOutput
  /\ shTrace = <<>>
  /\ goodCopy = disk

InitCommon ==
  /\ InitScripts
  /\ today = 1
  /\ metaFile \in InitFiles
  /\ readmeFile = <<>>
  /\ indexFile = <<>>
  /\ pc = "idle"
  /\ artifacts = <<>>
  /\ i = 1
  /\ metadata = EmptyObject
  /\ updatedMetadata = EmptyObject
  /\ snippets = <<>>
  /\ failed = FALSE
  /\ log = {}
  /\ input = <<>>
  /\ probes = <<>>
  /\ fileAtStart = metaFile
  /\ loaded = EmptyObject
  /\ results = <<>>
  /\ saved = FALSE
  /\ lastGood = InitLastGood(metaFile)
  /\ lastSaved = [t |-> "none"]
  /\ token = NoToken
  /\ prev = NoRun

Init == variant = "current" /\ batchValidation = FALSE /\ keepPrev = FALSE /\ InitCommon

\* The current revision, with the run before remembered.
InitTwice ==
  /\ variant = "current"
  /\ batchValidation = FALSE
  /\ keepPrev = TRUE
  /\ InitCommon
  /\ metaFile \in {MissingFile, OldFile}

InitConst ==
  /\ variant = "const"
  /\ batchValidation = FALSE
  /\ keepPrev = FALSE
  /\ InitCommon
  /\ metaFile \in InitFiles \ {ArrayFile}

InitInPlace ==
  /\ variant = "inplace"
  /\ batchValidation = FALSE
  /\ keepPrev = FALSE
  /\ InitCommon
  /\ metaFile \in InitFiles \ {ArrayFile}

InitBatch ==
  variant = "current" /\ batchValidation = TRUE /\ keepPrev = FALSE /\ InitCommon

\* ---------------------------------------------------------------- logging

Msg(level, text, url) == [level |-> level, text |-> text, url |-> url]

NoUrl == <<>>

\* What JSON.parse of a bad artifacts input ends in: setFailed with this text in the
\* const revision, the SyntaxError no one catches in the current one.
InputErrorText(rev) ==
  IF rev = "current" THEN "SyntaxError" ELSE "Invalid JSON for artifacts input"

\* core.getInput('github_token', { required: true }) throws when the input is not
\* supplied; the current revision never reads the input.
TokenMissing(rev, tok) == rev # "current" /\ tok = NoToken

\* ---------------------------------------------------------------- actions

\* The clock passes midnight.
Tick ==
  /\ today < MaxDate
  /\ today' = today + 1
  /\ UNCHANGED <<shellVars, variant, batchValidation, keepPrev, metaFile, readmeFile, indexFile, pc,
                 artifacts, i, metadata, updatedMetadata, snippets, failed, log,
                 input, probes, fileAtStart, loaded, results, saved, lastGood,
                 lastSaved, token, prev>>

\* run() up to the loop: the inputs, the pre-validation pass when enabled,
\* initializeDirectories and loadArchiveMetadata, the copy processArtifacts starts from.
Start ==
  /\ pc = "idle"
  /\ \E in \in Inputs :
     \E pr \in ProbeVectors(IF batchValidation THEN Len(in.list) ELSE 0) :
       LET parses == in.parses
           arts == in.list
           ld == loadArchiveMetadata(metaFile)
           noToken == TokenMissing(variant, in.token)
           abort == batchValidation /\ parses /\ PreValidationAborts(arts, pr)
           goes == ~noToken /\ parses /\ ~abort
       IN /\ input' = IF parses THEN arts ELSE <<>>
          /\ token' = in.token
          /\ probes' = pr
          /\ fileAtStart' = metaFile
          /\ results' = <<>>
          /\ saved' = FALSE
          /\ snippets' = <<>>
          /\ i' = 1
          /\ failed' = ~goes
          /\ pc' = IF goes THEN "loop" ELSE "done"
          /\ artifacts' = IF ~goes THEN <<>>
                          ELSE IF batchValidation THEN FetchPhase(arts, pr)
                          ELSE arts
          /\ loaded' = IF goes THEN ld.value ELSE EmptyObject
          /\ metadata' = IF goes THEN ld.value ELSE EmptyObject
          /\ updatedMetadata' =
               IF ~goes THEN EmptyObject
               ELSE IF variant = "current" THEN SpreadCopy(ld.value)
               ELSE ld.value
          /\ log' =
               IF noToken
               THEN {Msg("failed", "Input required and not supplied: github_token", NoUrl)}
               ELSE IF ~parses THEN {Msg("failed", InputErrorText(variant), NoUrl)}
               ELSE IF abort
               THEN {Msg("failed", "Pre-validation hard failure", u) :
                       u \in Offenders(arts, pr)}
                    \cup {Msg("warning", "Not found, excluded", arts[k].url) :
                            k \in {j \in 1..Len(arts) : pr[j] = "NotFound"}}
               ELSE {Msg("warning", "Error reading metadata.json, initializing a new one.",
                         NoUrl) : x \in {y \in {ld.warned} : y}}
                    \cup {Msg("warning", "Not found, excluded", arts[k].url) :
                            k \in {j \in 1..Len(pr) : pr[j] = "NotFound"}}
  /\ UNCHANGED <<shellVars, variant, batchValidation, keepPrev, today, metaFile, readmeFile, indexFile,
                 lastGood, lastSaved, prev>>

\* What one fetch attempt comes to, given the loaded metadata.
\*   Success: a path came back.  Crashed: the fallback threw (metadata is null, or,
\*   in the const revision, the assignment to the const archivedPath; there a
\*   success throws too when the metadata it writes to is null).
OutcomeOf(rev, md, url, path) ==
  IF path # Null
  THEN IF rev # "current" /\ LookupThrows(md) THEN "Crashed" ELSE "Success"
  ELSE IF LookupThrows(md) THEN "Crashed"
  ELSE IF HasRecord(md, url)
  THEN IF rev = "const" THEN "Crashed" ELSE "FallbackUsed"
  ELSE "Skipped"

\* The record the loop writes for the url (current revision: line 411).
NewRecordBumpsDate(rev, md, url, desc, path, date) ==
  [lastArchived |-> date,
   archivedPath |-> IF path # Null THEN NormalisePath(path)
                    ELSE NormalisePath(Get(md.e, url).archivedPath),
   description |-> IF rev = "current" THEN desc ELSE Undefined]

NewRecordKeepsOldDate(rev, md, url, desc, path, date) ==
  [lastArchived |-> IF HasRecord(md, url) THEN Get(md.e, url).lastArchived ELSE date,
   archivedPath |-> IF path # Null THEN NormalisePath(path)
                    ELSE NormalisePath(Get(md.e, url).archivedPath),
   description |-> IF rev = "current" THEN desc ELSE Undefined]

NewRecord(rev, md, url, desc, path, date) ==
  IF path # Null
  THEN [lastArchived |-> date, archivedPath |-> NormalisePath(path),
        description |-> IF rev = "current" THEN desc ELSE Undefined]
  ELSE [lastArchived |-> Get(md.e, url).lastArchived,
        archivedPath |-> NormalisePath(Get(md.e, url).archivedPath),
        description |-> IF rev = "current" THEN desc ELSE Undefined]

\* updatedMetadata after one attempt: written on a success and on a fallback,
\* left alone when the artifact is skipped (continue) or the fallback throws.
\* An assignment to a property of a string does nothing (the module is not strict).
UpdatedWritesOnSkip(rev, um, md, url, desc, path, date) ==
  IF um.t # "object" \/ OutcomeOf(rev, md, url, path) = "Crashed" THEN um
  ELSE IF OutcomeOf(rev, md, url, path) = "Skipped"
  THEN [t |-> "object",
        e |-> Put(um.e, url, [lastArchived |-> date, archivedPath |-> Null,
                              description |-> desc])]
  ELSE [t |-> "object",
        e |-> Put(um.e, url, NewRecord(rev, md, url, desc, path, date))]

Updated(rev, um, md, url, desc, path, date) ==
  IF um.t = "object" /\ OutcomeOf(rev, md, url, path) \in {"Success", "FallbackUsed"}
  THEN [t |-> "object",
        e |-> Put(um.e, url, NewRecord(rev, md, url, desc, path, date))]
  ELSE um

\* for (const artifact of artifacts): the next artifact is taken when the body has
\* ended for this one (execSync blocks until wget ends); an error thrown in the body
\* ends the loop.
LoopAdvanceSkips(k, outcome) == IF outcome = "Crashed" THEN k ELSE k + 2

LoopAdvance(k, outcome) == IF outcome = "Crashed" THEN k ELSE k + 1

\* One turn of the loop of processArtifacts: archiveWebsite, then the metadata.
ProcessArtifact ==
  /\ pc = "loop"
  /\ i <= Len(artifacts)
  /\ \E res \in FetchResults :
       LET url == artifacts[i].url
           desc == DescriptionOf(variant, artifacts[i])
           path == archiveWebsite(variant, url, res)
           date == IsoDate(today)
           outcome == OutcomeOf(variant, metadata, url, path)
           after == Updated(variant, updatedMetadata, metadata, url, desc, path, date)
       IN /\ updatedMetadata' = after
          /\ metadata' = IF variant = "current" THEN metadata ELSE after
          /\ snippets' =
               IF \/ variant = "const" /\ outcome = "Success"
                  \/ variant = "inplace" /\ outcome \in {"Success", "FallbackUsed"}
               THEN Append(snippets, [url |-> url, link |-> NormalisePath(path),
                                      description |-> desc, date |-> date])
               ELSE snippets
          /\ failed' = (failed \/ outcome = "Crashed")
          /\ pc' = IF outcome = "Crashed" THEN "done" ELSE "loop"
          /\ i' = LoopAdvance(i, outcome)
          /\ log' = log
               \cup {Msg("warning", "Failed to archive", url) : x \in {y \in {path} : y = Null}}
               \cup (CASE outcome = "FallbackUsed" ->
                            {Msg("warning", "Using last successful archive", url)}
                       [] outcome = "Skipped" ->
                            {Msg("warning", "No previous archive available, skipping.", url)}
                       [] outcome = "Crashed" -> {Msg("failed", "TypeError", url)}
                       [] OTHER -> {})
          /\ results' = Append(results,
               [url |-> url, description |-> artifacts[i].description, res |-> res,
                outcome |-> outcome, date |-> date, path |-> path, day |-> today,
                target |-> Strategy(variant, url).target,
                tool |-> Strategy(variant, url).tool])
          /\ lastGood' =
               IF path # Null
               THEN [lastGood EXCEPT ![url] = [date |-> date, path |-> NormalisePath(path)]]
               ELSE lastGood
  /\ UNCHANGED <<shellVars, variant, batchValidation, keepPrev, today, metaFile, readmeFile, indexFile,
                 artifacts, input, probes, fileAtStart, loaded, saved, lastSaved, token, prev>>

\* The rows of the table generateReadmeContent and generateIndexContent build.
\* Object.entries of a text gives its characters, which have no archivedPath and
\* no lastArchived: one such row stands for them.
ReportRows(v) ==
  IF v.t = "object"
  THEN [k \in 1..Len(v.e) |->
          [url |-> v.e[k][1], link |-> ReportLink(v.e[k][2].archivedPath),
           description |-> v.e[k][2].description, date |-> v.e[k][2].lastArchived]]
  ELSE IF v.t = "string"
  THEN << [url |-> <<"0">>, link |-> <<Undefined>>, description |-> Undefined,
           date |-> Undefined] >>
  ELSE <<>>

\* The value writeOutputFiles takes as its metadata.  The inplace revision declares
\* writeOutputFiles(metadata, schedule, contactEmail) and calls it with
\* (readmeContent, indexContent, updatedMetadata, schedule, contactEmail): there
\* the metadata it writes is the README text processArtifacts built.
WrittenMetadata(rev, um) == IF rev = "inplace" THEN [t |-> "string"] ELSE um

\* The end of the loop and writeOutputFiles: README.md, index.html, metadata.json.
WriteOutputFiles ==
  /\ pc = "loop"
  /\ i > Len(artifacts)
  /\ metadata' = updatedMetadata
  /\ readmeFile' = IF variant = "const" THEN snippets
                   ELSE ReportRows(WrittenMetadata(variant, updatedMetadata))
  /\ indexFile' = IF variant = "const" THEN snippets
                  ELSE ReportRows(WrittenMetadata(variant, updatedMetadata))
  /\ metaFile' = saveArchiveMetadata(WrittenMetadata(variant, updatedMetadata))
  /\ saved' = TRUE
  /\ lastSaved' = WrittenMetadata(variant, updatedMetadata)
  /\ pc' = "finish"
  /\ UNCHANGED <<shellVars, variant, batchValidation, keepPrev, today, artifacts, i, updatedMetadata,
                 snippets, failed, log, input, probes, fileAtStart, loaded, results,
                 lastGood, token, prev>>

\* The git commands of commitAndPushChanges whose failure reaches its catch (a
\* failed commit is caught on its own and only logged as "No changes to commit.").
GitSteps == {"config", "add", "set-url", "push"}

\* process.env.GITHUB_REPOSITORY.
GithubRepository == "owner/repo"

\* The command line execSync is given at each step.
CommandLine(step, tok) ==
  CASE step = "config" -> "git config user.name \"github-actions[bot]\""
    [] step = "add" -> "git add ."
    [] step = "set-url" -> "git remote set-url origin https://" \o tok
                             \o "@github.com/" \o GithubRepository \o ".git"
    [] step = "push" -> "git push"

\* core.setFailed(`Git operations failed: ${gitError.message}`): the message of the
\* error execSync throws names the command line that failed.
GitFailureText(step, tok) ==
  "Git operations failed: Command failed: " \o CommandLine(step, tok)

\* The rest of run(): commit and push in the older revisions, the closing message.
Finish ==
  /\ pc = "finish"
  /\ \E git \in {"ok"} \cup GitSteps :
       LET gitFails == variant # "current" /\ git # "ok"
       IN /\ failed' = (failed \/ gitFails)
          /\ log' = log
               \cup {Msg("failed", GitFailureText(git, token), NoUrl) :
                       x \in {y \in {gitFails} : y}}
               \cup {Msg("info", "Action completed successfully.", NoUrl)}
  /\ pc' = "done"
  /\ UNCHANGED <<shellVars, variant, batchValidation, keepPrev, today, metaFile, readmeFile, indexFile,
                 artifacts, i, metadata, updatedMetadata, snippets, input, probes,
                 fileAtStart, loaded, results, saved, lastGood, lastSaved, token, prev>>

\* The process ends: what it held in memory is gone, the files stay.
Exit ==
  /\ pc = "done"
  /\ pc' = "idle"
  /\ artifacts' = <<>>
  /\ i' = 1
  /\ metadata' = EmptyObject
  /\ updatedMetadata' = EmptyObject
  /\ snippets' = <<>>
  /\ failed' = FALSE
  /\ log' = {}
  /\ input' = <<>>
  /\ probes' = <<>>
  /\ fileAtStart' = metaFile
  /\ loaded' = EmptyObject
  /\ results' = <<>>
  /\ saved' = FALSE
  /\ token' = NoToken
  /\ prev' = IF keepPrev /\ AllCaptured THEN [ok |-> TRUE, input |-> input, store |-> lastSaved]
             ELSE NoRun
  /\ UNCHANGED <<shellVars, variant, batchValidation, keepPrev, today, metaFile, readmeFile, indexFile,
                 lastGood, lastSaved>>

Next == Tick \/ Start \/ ProcessArtifact \/ WriteOutputFiles \/ Finish \/ Exit

Spec == Init /\ [][Next]_vars

SpecConst == InitConst /\ [][Next]_vars

SpecInPlace == InitInPlace /\ [][Next]_vars

SpecTwice == InitTwice /\ [][Next]_vars

SpecBatch == InitBatch /\ [][Next]_vars

\* ---------------------------------------------------------- the scripts
\* handle_artifact.sh, handle_website.sh and handle_subreddit.sh: one call handles
\* one artifact; the actions below are the three branches of handle_artifact.sh,
\* each with the script it delegates to.

mainVars == <<variant, batchValidation, keepPrev, today, metaFile, readmeFile,
              indexFile, pc, artifacts, i, metadata, updatedMetadata, snippets,
              failed, log, input, probes, fileAtStart, loaded, results, saved,
              lastGood, lastSaved, token, prev>>

\* An identity handle_artifact.sh takes for neither a website nor a subreddit.
BareName == <<"a.example">>

ShellArtifacts == {SiteA, SubOne, SubTwo, BareName}

\* [[ "$artifact" =~ ^https?:// ]] and [[ "$artifact" =~ ^r/ ]].
IsWebsite(artifact) ==
  Len(artifact) >= 3 /\ artifact[1] \in {"http:", "https:"} /\ artifact[2] = ""

\* What curl -w "%{http_code}" prints: the status, "000" when no answer came.
Statuses == {"200", "301", "404", "503", "000"}

\* [ "$status" -eq 404 ]: the one status handle_website.sh stops at.
StopsAtStatus(status) == status = "404"

InitShell ==
  /\ variant = "scripts"
  /\ batchValidation = FALSE
  /\ keepPrev = FALSE
  /\ InitCommon
  /\ metaFile = MissingFile

\* handle_website.sh: the status check, then rm -rf, mkdir, wget || true, find.
\* rm and mkdir leave $TARGET_DIR empty; wget mirrors into MirrorDir; the snippet
\* names $TARGET_DIR, whose copy goodCopy remembers.
HandleWebsite ==
  /\ variant = "scripts"
  /\ \E artifact \in {a \in ShellArtifacts : IsWebsite(a)} :
     \E status \in Statuses :
     \E wgetOk \in BOOLEAN :
       IF StopsAtStatus(status)
       THEN /\ shOut' = [artifact |-> artifact, status |-> status,
                         snippet |-> "Returned 404 and was skipped.",
                         transfer |-> "none"]
            /\ shTrace' = <<"curl-status">>
            /\ UNCHANGED <<disk, goodCopy>>
       ELSE /\ disk' = [disk EXCEPT ![TargetDir(artifact)] = "empty",
                                     ![MirrorDir(artifact)] =
                                        IF wgetOk THEN IsoDate(today) ELSE @]
            /\ goodCopy' = IF wgetOk
                           THEN [goodCopy EXCEPT ![TargetDir(artifact)] = IsoDate(today)]
                           ELSE goodCopy
            /\ shOut' = [artifact |-> artifact, status |-> status,
                         snippet |-> "archived in",
                         transfer |-> IF wgetOk THEN "ok" ELSE "failed"]
            /\ shTrace' = <<"curl-status", "rm", "mkdir", "wget", "find">>
  /\ UNCHANGED mainVars

\* handle_subreddit.sh: curl -sL -o "$OUTPUT_FILE", without --fail: an error answer
\* is written to the file like a page and curl ends well; no answer leaves the file
\* alone and curl ends with an error, which the script does not look at.
HandleSubreddit ==
  /\ variant = "scripts"
  /\ \E artifact \in {a \in ShellArtifacts : ~IsWebsite(a) /\ IsSubreddit(a)} :
     \E status \in Statuses :
       /\ disk' = [disk EXCEPT ![OutputFile(artifact)] =
                     IF status \in {"200", "301"} THEN IsoDate(today)
                     ELSE IF status = "000" THEN @
                     ELSE "errorpage"]
       /\ goodCopy' = IF status \in {"200", "301"}
                      THEN [goodCopy EXCEPT ![OutputFile(artifact)] = IsoDate(today)]
                      ELSE goodCopy
       /\ shOut' = [artifact |-> artifact, status |-> "none", snippet |-> "archived in",
                    transfer |-> IF status = "000" THEN "failed" ELSE "ok"]
       /\ shTrace' = <<"curl">>
  /\ UNCHANGED mainVars

\* handle_artifact.sh, the else branch: nothing is fetched.
HandleUnrecognized ==
  /\ variant = "scripts"
  /\ \E artifact \in {a \in ShellArtifacts : ~IsWebsite(a) /\ ~IsSubreddit(a)} :
       shOut' = [artifact |-> artifact, status |-> "none",
                 snippet |-> "Unrecognized artifact type.", transfer |-> "none"]
  /\ shTrace' = <<>>
  /\ UNCHANGED <<disk, goodCopy>>
  /\ UNCHANGED mainVars

NextShell == Tick \/ HandleWebsite \/ HandleSubreddit \/ HandleUnrecognized

SpecShell == InitShell /\ [][NextShell]_vars

\* ------------------------------------------------------------- claims

\* The parsed text of metadata.json holds a record for the url.
SavedHas(u) ==
  metaFile.kind = "json" /\ metaFile.text.t = "object" /\ Has(metaFile.text.members, u)

SavedRecord(u) == ParseRecord(Get(metaFile.text.members, u))

\* No attempt at the url has succeeded in this run.
NeverCaptured(u) == \A j \in 1..Len(results) : results[j].url = u => results[j].path = Null

\* The last successful attempt at its url in this run.
IsLastCapture(k) ==
  /\ results[k].path # Null
  /\ \A j \in (k + 1)..Len(results) :
       results[j].url = results[k].url => results[j].path = Null

\* The artifacts input of this run was a list.
Parsed == Msg("failed", InputErrorText(variant), NoUrl) \notin log

\* C1: when an artifact's fetch fails (and no other attempt at its identity succeeds
\* in the run) and the loaded metadata holds a record for the identity, the record
\* saved at run end is identical, field by field, to the loaded record.
C1_FallbackIsReadOnly ==
  saved =>
    \A k \in 1..Len(results) :
      (/\ results[k].path = Null
       /\ HasRecord(loaded, results[k].url)
       /\ NeverCaptured(results[k].url))
      => /\ SavedHas(results[k].url)
         /\ SavedRecord(results[k].url) = Get(loaded.e, results[k].url)

C3_SuccessUpdates ==
  saved =>
    \A k \in 1..Len(results) :
      IsLastCapture(k)
      => /\ SavedHas(results[k].url)
         /\ SavedRecord(results[k].url).lastArchived = results[k].date
         /\ SavedRecord(results[k].url).archivedPath = results[k].path
         /\ results[k].path[1] = ARCHIVE_DIR
         /\ SavedRecord(results[k].url).description =
              DescriptionOf(variant, [description |-> results[k].description])

RowOf(rows, u) == rows[CHOOSE k \in 1..Len(rows) : rows[k].url = u]

HasRow(rows, u) == \E k \in 1..Len(rows) : rows[k].url = u

\* C4: after any sequence of runs, for every identity that has had a successful
\* capture, the saved record's lastArchived and archivedPath, and the date and link
\* README.md and index.html show for it, are those of its latest successful capture.
C4_LatestCaptureKept ==
  saved =>
    \A u \in Urls :
      lastGood[u] # NoCapture
      => /\ SavedHas(u)
         /\ SavedRecord(u).lastArchived = lastGood[u].date
         /\ SavedRecord(u).archivedPath = lastGood[u].path
         /\ HasRow(readmeFile, u)
         /\ RowOf(readmeFile, u).date = lastGood[u].date
         /\ RowOf(readmeFile, u).link = ReportLink(lastGood[u].path)
         /\ HasRow(indexFile, u)
         /\ RowOf(indexFile, u).date = lastGood[u].date
         /\ RowOf(indexFile, u).link = ReportLink(lastGood[u].path)

\* The record the run holds for the url is the loaded one (or none, as loaded).
RecordAsLoaded(u) ==
  IF HasRecord(loaded, u)
  THEN Has(updatedMetadata.e, u) /\ Get(updatedMetadata.e, u) = Get(loaded.e, u)
  ELSE ~Has(updatedMetadata.e, u)

C6_FetchFailureIsLocal ==
  loaded.t = "object" =>
    \A k \in 1..Len(results) :
      results[k].path = Null
      => /\ results[k].outcome \in {"FallbackUsed", "Skipped"}
         /\ i > k
         /\ pc \in {"loop", "finish"} => ~failed

\* C7: a capture error other than a 404 fails the workflow: the action stops at
\* that artifact and its status is set to failed.
C7_OtherErrorsFail ==
  \A k \in 1..Len(results) :
    results[k].res = "http503" => (failed /\ pc = "done" /\ Len(results) = k)

\* C8: with the pre-validation pass enabled, a hard failure among the probes
\* aborts the run with a failed status before any fetch and before metadata.json,
\* README.md or index.html is written; a NotFound probe only keeps its artifact out
\* of the fetch phase and does not abort the run.
C8_BatchPreValidation ==
  (batchValidation /\ pc # "idle" /\ Parsed) =>
    IF \E k \in 1..Len(probes) : probes[k] = "HardFailure"
    THEN /\ pc = "done"
         /\ failed
         /\ results = <<>>
         /\ ~saved
         /\ metaFile = fileAtStart
    ELSE /\ Len(probes) = Len(input)
         /\ Len(artifacts) = Cardinality({j \in 1..Len(input) : probes[j] # "NotFound"})
         /\ \A k \in 1..Len(artifacts) :
              \E j \in 1..Len(input) : input[j] = artifacts[k] /\ probes[j] # "NotFound"
         /\ Len(results) <= Len(artifacts)
         /\ \A k \in 1..Len(results) : results[k].url = artifacts[k].url
         /\ (pc = "done" /\ results = <<>>) => (saved /\ ~failed)

\* A run the pre-validation pass aborted, with another artifact probed NotFound,
\* over a metadata.json that held a record.
C8_Witness ==
  /\ batchValidation
  /\ pc = "done"
  /\ Len(input) = 2
  /\ probes = <<"NotFound", "HardFailure">>
  /\ failed
  /\ metaFile = OldFile

\* The file the run began with holds no identity-to-record mapping.
NoMappingAtStart == fileAtStart \in {MissingFile, GarbageFile, NullFile, ArrayFile}

\* C9: loading the metadata never makes the run fail: when metadata.json is missing,
\* unreadable or holds no identity-to-record mapping, the run goes on with an empty
\* mapping and the artifacts after that are processed as usual: no attempt ends in
\* an uncaught error and the status is not failed while the run goes on.
C9_LoadNeverFatal ==
  (pc # "idle" /\ Parsed /\ NoMappingAtStart) =>
    /\ updatedMetadata.t = "object"
    /\ updatedMetadata.e = <<>> \/ results # <<>>
    /\ \A k \in 1..Len(results) : results[k].outcome # "Crashed"
    /\ pc \in {"loop", "finish"} => ~failed

SameFields(a, b) ==
  /\ a.lastArchived = b.lastArchived
  /\ a.archivedPath = b.archivedPath
  /\ a.description = b.description

SameMapping(a, b) ==
  /\ a.t = "object"
  /\ b.t = "object"
  /\ Len(a.e) = Len(b.e)
  /\ Keys(a.e) = Keys(b.e)
  /\ \A key \in Keys(a.e) : SameFields(Get(a.e, key), Get(b.e, key))

\* C10: saveArchiveMetadata followed by loadArchiveMetadata gives a mapping with
\* the same keys and, for each key, equal lastArchived, archivedPath and
\* description: of the file just written, and of what the next run loads.
C10_RoundTrip ==
  /\ saved => SameMapping(updatedMetadata, loadArchiveMetadata(metaFile).value)
  /\ (pc = "loop" /\ lastSaved.t # "none") => SameMapping(lastSaved, loaded)

\* A run that loaded the two records the run before it had saved.
C10_Witness ==
  /\ pc = "loop"
  /\ lastSaved.t = "object"
  /\ Len(lastSaved.e) = 2
  /\ Len(loaded.e) = 2

\* The run began with a metadata.json that holds a mapping.
ValidAtStart == fileAtStart.kind = "json" /\ fileAtStart.text.t = "object"

\* The run went through its whole list and captured nothing.
NoOpRun ==
  /\ saved
  /\ Len(results) = Len(input)
  /\ \A k \in 1..Len(results) : results[k].path = Null

\* C11: a run that captures nothing (an empty artifact list, say), loads a valid
\* metadata.json and completes, saves a metadata.json that holds every loaded key
\* with unchanged lastArchived, archivedPath and description.
C11_NoOpRunKeepsMetadata ==
  (NoOpRun /\ ValidAtStart) =>
    \A u \in Keys(JsonParse(fileAtStart.text).e) :
      /\ SavedHas(u)
      /\ SavedRecord(u) = Get(JsonParse(fileAtStart.text).e, u)

\* The wiki index of a subreddit, as the README and handle_subreddit.sh give it and
\* as archiveWebsite gives it.
WikiIndexUrls(url) ==
  {<<"https:", "", "www.reddit.com">> \o url \o <<"wiki", "index">>,
   <<"https:", "", "old.reddit.com">> \o url \o <<"wiki">>}

\* C12: the strategy selector classifies every identity: "r/<name>" is rewritten to
\* the wiki index of that subreddit and fetched as a single document with curl;
\* every other identity is fetched as it is, as a full-site mirror with wget.
C12_SelectorClassifies ==
  \A k \in 1..Len(results) :
    IF IsSubreddit(results[k].url)
    THEN results[k].target \in WikiIndexUrls(results[k].url) /\ results[k].tool = "curl"
    ELSE results[k].target = results[k].url /\ results[k].tool = "wget"

\* C13: a successful capture of "r/<name>" is recorded with a path derived from the
\* name of the subreddit and not from the host: the host is no part of the path,
\* and two different subreddits never get the same archivedPath, in the run and
\* in the metadata.json it saves.
C13_SubredditPathByName ==
  \A j \in 1..Len(results) :
    (IsSubreddit(results[j].url) /\ results[j].path # Null)
    => /\ \A s \in 1..Len(results[j].path) :
            results[j].path[s] # Hostname(results[j].target)
       /\ \A k \in 1..Len(results) :
            (IsSubreddit(results[k].url) /\ results[k].path # Null
               /\ results[k].url # results[j].url)
            => /\ results[k].path # results[j].path
               /\ saved => SavedRecord(results[k].url).archivedPath
                             # SavedRecord(results[j].url).archivedPath

\* C14: a configuration error (an artifacts input that is no well-formed list, or
\* a github_token that was not supplied) is fatal at startup: the run ends failed
\* before any fetch and before README.md, index.html or metadata.json is written.
C14_ConfigErrorIsFatal ==
  (pc # "idle" /\ (~Parsed \/ token = NoToken)) =>
    /\ failed
    /\ pc = "done"
    /\ results = <<>>
    /\ ~saved
    /\ metaFile = fileAtStart

\* This run follows a run over the same list in which every fetch succeeded, and
\* every fetch of this run succeeded too.
SecondRun == prev.ok /\ prev.input = input /\ AllCaptured

KeySet(v) == {v.e[k][1] : k \in 1..Len(v.e)}

\* C15 as stated: after the second of two successive runs over the same list with
\* every fetch succeeding, the saved mapping has the key set of the first run,
\* every lastArchived is a date of the second run, and every archivedPath has its
\* first-run value.
C15_StableRecaptureAsStated ==
  SecondRun =>
    /\ KeySet(lastSaved) = KeySet(prev.store)
    /\ \A u \in KeySet(lastSaved) :
         /\ Get(lastSaved.e, u).lastArchived \in {results[k].date : k \in 1..Len(results)}
         /\ Get(lastSaved.e, u).archivedPath = Get(prev.store.e, u).archivedPath

\* C15 amended: ... the saved mapping has the key set of the first run, every
\* archivedPath has its first-run value, and the lastArchived of every identity of
\* the list is the date of its capture in the second run.
C15_StableRecapture ==
  SecondRun =>
    /\ KeySet(lastSaved) = KeySet(prev.store)
    /\ \A u \in KeySet(lastSaved) :
         /\ SavedHas(u)
         /\ SavedRecord(u).archivedPath = Get(prev.store.e, u).archivedPath
    /\ \A k \in 1..Len(results) :
         IsLastCapture(k) => SavedRecord(results[k].url).lastArchived = results[k].date

\* A second run over two artifacts, a day after the first.
C15_Witness ==
  /\ SecondRun
  /\ Len(input) = 2
  /\ input[1].url # input[2].url
  /\ \A k \in 1..Len(results) :
       SavedRecord(results[k].url).lastArchived = IsoDate(2)
         /\ Get(prev.store.e, results[k].url).lastArchived = IsoDate(1)

\* C16: within one run the artifacts are captured one at a time in the order of
\* the list: the k-th capture is that of the k-th artifact, a capture starts only
\* when the one before it has ended and its metadata decision is made (no earlier
\* day, no uncaught error before it), and the files are written after the last.
C16_SequentialInOrder ==
  /\ Len(results) <= Len(artifacts)
  /\ \A k \in 1..Len(results) :
       /\ results[k].url = artifacts[k].url
       /\ results[k].outcome \in {"Success", "FallbackUsed", "Skipped", "Crashed"}
       /\ k < Len(results) =>
            /\ results[k].outcome # "Crashed"
            /\ results[k].day <= results[k + 1].day
  /\ pc = "loop" => i = Len(results) + 1
  /\ saved => Len(results) = Len(artifacts)

\* A failed capture on one day, then the capture of the next artifact on the next.
C16_Witness ==
  /\ Len(results) = 2
  /\ results[1].outcome = "Skipped"
  /\ results[2].outcome = "Success"
  /\ results[1].day < results[2].day
  /\ results[1].url # results[2].url

\* The warning processArtifacts logs for what an attempt came to.
WarnedOf(k) ==
  /\ results[k].outcome = "FallbackUsed"
       => Msg("warning", "Using last successful archive", results[k].url) \in log
  /\ results[k].outcome = "Skipped"
       => Msg("warning", "No previous archive available, skipping.", results[k].url)
            \in log

\* The row of the url in README.md and in index.html carries the loaded date.
RowHasLoadedDate(u) ==
  /\ HasRow(readmeFile, u)
  /\ RowOf(readmeFile, u).date = Get(loaded.e, u).lastArchived
  /\ HasRow(indexFile, u)
  /\ RowOf(indexFile, u).date = Get(loaded.e, u).lastArchived

C18_PreviousCopyKept ==
  \A q \in ShellPaths : goodCopy[q] # "none" => disk[q] = goodCopy[q]

\* The three classes the claim names, by the status the check printed.
ClassOf(status) ==
  IF status \in {"200", "301"} THEN "Reachable"
  ELSE IF status = "404" THEN "NotFound"
  ELSE "HardFailure"

Fetched == \E k \in 1..Len(shTrace) : shTrace[k] \in {"wget", "curl"}

\* C19: a 404 is treated as NotFound, a 5xx or a missing answer as HardFailure,
\* and only a Reachable result (2xx, 3xx) lets the website proceed to fetching.
C19_OnlyReachableFetches ==
  (shOut.status # "none" /\ Fetched) => ClassOf(shOut.status) = "Reachable"

\* The position of the first fetch command (wget or curl download) of the last
\* script run, 0 when it fetched nothing.
FirstFetch ==
  IF Fetched
  THEN CHOOSE k \in 1..Len(shTrace) :
         /\ shTrace[k] \in {"wget", "curl"}
         /\ \A j \in 1..(k - 1) : shTrace[j] \notin {"wget", "curl"}
  ELSE 0

\* C20: no fetch is started for an artifact before its existence check has
\* returned, and none is started for an artifact whose check returned 404.
C20_ProbeBeforeFetch ==
  Fetched =>
    /\ \E j \in 1..(FirstFetch - 1) : shTrace[j] = "curl-status"
    /\ shOut.status # "404"

\* Urls with a file name, with "archive" in the path and as the host.
PathUrls ==
  {SiteA, TargetUrl(SubOne),
   <<"https:", "", "a.example", "file.pdf">>,
   <<"https:", "", "a.example", "archive", "file.pdf">>,
   <<"https:", "", "a.example", "archive", "docs">>,
   <<"http:", "", "archive", "index.html">>}

\* A path below the archive root that the normalisation leaves as it is: no
\* absolute path (first segment empty) and no remote url (first segment a scheme).
StoreRelative(p) ==
  /\ Len(p) >= 2
  /\ p[1] = ARCHIVE_DIR
  /\ p[1] \notin {"", "http:", "https:"}
  /\ NormalisePath(p) = p

\* C21: in every state of a run and in every metadata.json it saves, each record's
\* archivedPath begins with "archive/" (no absolute path, no remote url), and
\* normalising a stored path again, as the fallback does, gives the same path; so
\* does every path archiveWebsite can return.
C21_PathsAreStoreRelative ==
  /\ \A k \in 1..Len(updatedMetadata.e) : StoreRelative(updatedMetadata.e[k][2].archivedPath)
  /\ (metaFile.kind = "json" /\ metaFile.text.t = "object") =>
       \A k \in 1..Len(metaFile.text.members) :
         StoreRelative(metaFile.text.members[k][2].archivedPath)
  /\ \A u \in PathUrls : StoreRelative(NormalisePath(ArchivedPathOf(u)))

\* A saved run with a fallback to the record an older revision wrote (its stored
\* path normalised again) and a capture of a subreddit.
C21_Witness ==
  /\ saved
  /\ fileAtStart = LegacyFile
  /\ Len(results) = 2
  /\ results[1].outcome = "FallbackUsed"
  /\ results[2].outcome = "Success"
  /\ SavedHas(SiteA)
  /\ SavedRecord(SiteA).archivedPath = <<ARCHIVE_DIR, UrlSlug(SiteA), "index.html">>
  /\ SavedHas(results[2].url)

\* C22: no run aborts once capture work has started: a run that loaded a mapping,
\* has handled its first artifact and has ended has handled every artifact of its
\* list and has written metadata.json, whatever the fetches came to.
C22_NoAbortAfterStart ==
  (pc = "done" /\ results # <<>> /\ loaded.t = "object")
    => (saved /\ Len(results) = Len(input))

\* C23: a capture whose transfer fails is never reported as a successful archive:
\* the report line of an artifact says "archived in" only when the transfer
\* command of that call ended well.
C23_FailedTransferNotArchived ==
  shOut.snippet = "archived in" => shOut.transfer = "ok"

\* C24: each artifact of the list is processed exactly once per run, in one turn of
\* the loop that yields exactly one outcome among Success, FallbackUsed, Skipped and
\* Failed, and a run that has left the loop has processed every artifact.
C24_EachArtifactOnce ==
  /\ Len(results) <= Len(artifacts)
  /\ \A k \in 1..Len(results) :
       /\ results[k].url = artifacts[k].url
       /\ results[k].outcome \in {"Success", "FallbackUsed", "Skipped", "Failed"}
  /\ pc \in {"finish", "done"} => Len(results) = Len(artifacts)

\* A later attempt at the url of the k-th attempt failed.
FailedLater(k) ==
  \E j \in (k + 1)..Len(results) :
    results[j].url = results[k].url /\ results[j].path = Null

\* C25: when an identity occurs more than once in the list and an earlier
\* occurrence was captured in this run, a later occurrence whose fetch fails leaves
\* the record of that capture in place: the saved record has the date and the path
\* of the capture, not those of the record loaded at run start.
C25_RepeatKeepsFreshRecord ==
  saved =>
    \A k \in 1..Len(results) :
      (IsLastCapture(k) /\ FailedLater(k))
      => /\ SavedHas(results[k].url)
         /\ SavedRecord(results[k].url).lastArchived = results[k].date
         /\ SavedRecord(results[k].url).archivedPath = NormalisePath(results[k].path)

\* The identity occurs in the artifact list of the run.
InList(u) == \E k \in 1..Len(input) : input[k].url = u

\* The row of the url in the table shows the record.
RowShows(rows, u, rec) ==
  /\ HasRow(rows, u)
  /\ RowOf(rows, u).date = rec.lastArchived
  /\ RowOf(rows, u).link = ReportLink(rec.archivedPath)
  /\ RowOf(rows, u).description = rec.description

C27_WritesReturnedMapping ==
  saved =>
    /\ lastSaved = updatedMetadata
    /\ metaFile = saveArchiveMetadata(updatedMetadata)
    /\ readmeFile = ReportRows(updatedMetadata)
    /\ indexFile = ReportRows(updatedMetadata)

\* C28: "Action completed successfully." is logged only in runs whose status was
\* never set to failed: once a git operation (or another step) has called
\* setFailed, the run does not log the success message.
C28_SuccessOnlyIfNotFailed ==
  Msg("info", "Action completed successfully.", NoUrl) \in log => ~failed

\* C29: the github_token never flows into what a run shows: every git failure
\* message the run has logged is, word for word, the message the same failure
\* gives in a run with any other token (README.md, index.html and metadata.json
\* are built without the token).
C29_TokenNotObservable ==
  \A m \in log :
    \A step \in GitSteps :
      m.text = GitFailureText(step, token)
      => \A t \in Tokens : GitFailureText(step, t) = m.text

====
